---- MODULE Spec2Model ----
(***************************************************************************)
(* ManualStatsTracker of opendbc/car/subaru/manual_stats.py as a state     *)
(* machine: one action per public operation (update, end_session), the     *)
(* private detectors as operators over the tracker record.                 *)
(*                                                                         *)
(* Units.  The code works on floats; the model keeps every quantity exact  *)
(* in a fixed unit:                                                        *)
(*   rpm            1 rpm                                                  *)
(*   speed          0.1 m/s      (0.5 m/s = 5, 1.5 m/s = 15, 5.0 m/s = 50) *)
(*   throttle       1 %          (0.10 = 10, 0.3 = 30, 0.7 = 70)           *)
(*   accel          1 m/s^2                                                *)
(*   durations      1 tick = DT_CTRL = 10 ms  (30 s = 3000 ticks)          *)
(*   smoothness     the variance num/den whose square root the code takes; *)
(*                  s < t is decided as num < t^2 * den                    *)
(***************************************************************************)
EXTENDS Integers, Sequences, FiniteSets, TLC

\* ---------------------------------------------------------------- constants

\* src 28-33, gear ratios in thousandths
BRZ_GEAR_RATIOS == <<3626, 2188, 1541, 1213, 1000, 767>>
\* src 35, hundredths
BRZ_FINAL_DRIVE == 410
\* src 39, millimetres
BRZ_TIRE_CIRCUMFERENCE == 1977

ECONOMY_UPSHIFT_RPM == 2500
ECONOMY_DOWNSHIFT_RPM == 1500
PERFORMANCE_UPSHIFT_RPM == 6500
PERFORMANCE_DOWNSHIFT_RPM == 4000

STALL_RPM_THRESHOLD == 300
LUG_RPM_THRESHOLD == 1500
\* 0.10, in percent
LUG_LOAD_THRESHOLD == 10
\* 1.5 m/s, in 0.1 m/s
MIN_SPEED_FOR_LUG == 15
\* 0.5 m/s, in 0.1 m/s
LAUNCH_SPEED_THRESHOLD == 5
\* 5.0 m/s, in 0.1 m/s
LAUNCH_COMPLETE_SPEED == 50

GOOD_DOWNSHIFT_REV_MATCH_TOLERANCE == 300
OK_DOWNSHIFT_REV_MATCH_TOLERANCE == 500

\* deque(maxlen=50), src 210
ACCEL_HISTORY_MAXLEN == 50
\* len(accel_history) < 10, src 354
MIN_JERK_SAMPLES == 10
\* frames_since_clutch_release > 100, src 503
SHIFT_WINDOW_FRAMES == 100
\* _live_update_counter >= 500, src 423
LIVE_UPDATE_PERIOD == 500
\* session.duration < 30 with duration = frames * DT_CTRL, DT_CTRL = 10 ms:
\* exactly frames < 3000 in double arithmetic as well (2999 * 0.01 < 30.0 = 3000 * 0.01)
MIN_SESSION_SECONDS == 30
TICKS_PER_SECOND == 100
MIN_SESSION_FRAMES == MIN_SESSION_SECONDS * TICKS_PER_SECOND
\* len(session_history) > 30, src 324
MAX_SESSION_HISTORY == 30
\* len(recent_*) > 10, src 329, 341
MAX_RECENT == 10
\* self.frame - self.last_shift_frame < 50, src 641
SHIFT_INFO_FRAMES == 50

\* ------------------------------------------------------------------- bounds

\* The drives explored.  A "short" drive takes any sample on every tick and
\* ends after ShortFrames ticks.  A "long" drive cruises (CruiseSample) for
\* QuietUntil ticks, then takes any sample on every tick up to MaxFrame, which
\* lies past the 3000 ticks a session has to last to be kept.
ShortFrames == 3
QuietUntil == 2997
MaxFrame == 3001
\* end_session is called at most MaxSessions times past the minimum duration
MaxSessions == 2
\* A "window" drive takes any of WindowSamples for ShortFrames ticks, then
\* HoldSample on every tick up to HoldUntil, then any of WindowSamples up to
\* WindowFrames: a clutch release of the first ticks is 100 and 101 ticks old
\* on the last ones.
HoldUntil == 102
WindowFrames == 104

\* ------------------------------------------------------------------ helpers

RECURSIVE SeqSum(_)
SeqSum(s) == IF s = <<>> THEN 0 ELSE Head(s) + SeqSum(Tail(s))

RECURSIVE SeqSumSq(_)
SeqSumSq(s) == IF s = <<>> THEN 0 ELSE Head(s) * Head(s) + SeqSumSq(Tail(s))

Abs(x) == IF x < 0 THEN -x ELSE x

Range(seq) == {seq[i] : i \in 1..Len(seq)}

\* a non-negative rational num/den, den > 0 (a variance)
Rat(n, d) == [num |-> n, den |-> d]
RatZero == Rat(0, 1)
RatLess(a, b) == a.num * b.den < b.num * a.den
\* max(a, b) of Python: a unless b is greater
RatMax(a, b) == IF RatLess(a, b) THEN b ELSE a
\* sqrt(v) < t4/4 for a threshold given in quarters (0.5 = 2, 1.0 = 4, 1.5 = 6, 2.5 = 10)
SmoothLess(v, t4) == 16 * v.num < t4 * t4 * v.den

\* thresholds on the smoothness (std dev in m/s^2), in quarters
GOOD_SHIFT_SMOOTHNESS == 2
OK_SHIFT_SMOOTHNESS == 4
GOOD_LAUNCH_SMOOTHNESS == 6
OK_LAUNCH_SMOOTHNESS == 10

\* a Python dict with insertion order: a sequence of [k, v]; keys are <<"int", g>> or
\* <<"str", g>> (the int g and the string str(g) are different keys of a dict)
IntKey(g) == <<"int", g>>
StrKey(g) == <<"str", g>>
DictHas(d, k) == \E i \in 1..Len(d) : d[i].k = k
DictGet(d, k, default) ==
  IF DictHas(d, k) THEN d[CHOOSE i \in 1..Len(d) : d[i].k = k].v ELSE default
DictSet(d, k, v) ==
  IF DictHas(d, k)
  THEN [i \in 1..Len(d) |-> IF d[i].k = k THEN [k |-> k, v |-> v] ELSE d[i]]
  ELSE Append(d, [k |-> k, v |-> v])

\* -------------------------------------------------------------- kinematics

\* rpm_for_speed_and_gear as a fraction over RpmDen:
\*   speed_ms * 4.10 * ratio * 60 / 1.977  =  speed * ratio * 41 / 3295
\* with speed in 0.1 m/s and ratio in thousandths
RpmNumFactor == (BRZ_FINAL_DRIVE * 60) \div 600
RpmDen == (BRZ_TIRE_CIRCUMFERENCE * 1000) \div 600
rpm_for_speed_and_gear(speed_ms, gear) ==
  IF gear \notin 1..6 \/ speed_ms <= 0 THEN 0
  ELSE speed_ms * BRZ_GEAR_RATIOS[gear] * RpmNumFactor

\* mutant: the final drive is left out of the way back
speed_for_rpm_and_gear_no_final_drive(rpm, gear) ==
  IF gear \notin 1..6 \/ rpm <= 0 THEN RatZero
  ELSE Rat(rpm, BRZ_GEAR_RATIOS[gear])

\* speed_for_rpm_and_gear in 0.1 m/s as a fraction, for rpm a fraction over RpmDen:
\*   rpm * 1.977 / (4.10 * ratio * 60)  =  (rpm * 3295) / (ratio * 41)
speed_for_rpm_and_gear(rpm, gear) ==
  IF gear \notin 1..6 \/ rpm <= 0 THEN RatZero
  ELSE Rat(rpm, BRZ_GEAR_RATIOS[gear] * RpmNumFactor)

\* ------------------------------------------------------------- dataclasses

\* DriveSession(start_time=0.0).  start_time, end_time are never written again;
\* duration is assigned in end_session and read only inside that call, so it is
\* a local of EndSession.
DriveSession ==
  [ stall_count |-> 0, lug_count |-> 0, lug_duration_total |-> 0,
    upshift_count |-> 0, upshift_good |-> 0, upshift_ok |-> 0, upshift_poor |-> 0,
    downshift_count |-> 0, downshift_good |-> 0, downshift_ok |-> 0, downshift_poor |-> 0,
    launch_count |-> 0, launch_good |-> 0, launch_ok |-> 0, launch_poor |-> 0,
    launch_stalled |-> 0 ]

\* asdict(SessionSummary(...)) without the wall-clock timestamp
SessionSummary(duration, session) ==
  [ duration |-> duration,
    stalls |-> session.stall_count, lugs |-> session.lug_count,
    upshifts |-> session.upshift_count, upshifts_good |-> session.upshift_good,
    downshifts |-> session.downshift_count, downshifts_good |-> session.downshift_good,
    launches |-> session.launch_count, launches_good |-> session.launch_good ]

\* HistoricalStats(): the defaults, the per-gear dict keyed by the ints 1..6
\* (gear_shift_jerk_totals, which lines 511-513 write under the same keys as
\* gear_shift_counts, is not carried)
HistoricalStats ==
  [ total_drives |-> 0, total_drive_time |-> 0,
    total_stalls |-> 0, total_lugs |-> 0, total_lug_time |-> 0,
    total_upshifts |-> 0, upshifts_good |-> 0, upshifts_ok |-> 0, upshifts_poor |-> 0,
    total_downshifts |-> 0, downshifts_good |-> 0, downshifts_ok |-> 0, downshifts_poor |-> 0,
    gear_shift_counts |-> [g \in 1..6 |-> [k |-> IntKey(g), v |-> 0]],
    total_launches |-> 0, launches_good |-> 0, launches_ok |-> 0, launches_poor |-> 0,
    launches_stalled |-> 0,
    session_history |-> <<>>,
    recent_stall_rates |-> <<>>, recent_shift_scores |-> <<>> ]

\* ------------------------------------------------------------- persistence

\* what Params.get returns: None, ...
NoBlob == [none |-> TRUE]
\* ... empty bytes, ...
EmptyBlob == [empty |-> TRUE]
\* ... text json.loads raises on, ...
GarbageBlob == [garbage |-> TRUE]
\* ... a JSON document that is not an object (an array), ...
ArrayBlob == [array |-> TRUE]
\* ... or a JSON object, its members a function from its keys
ObjectBlob(members) == [object |-> members]

\* an exception
Raised == [raised |-> TRUE]

\* json.dumps of a dict: every key is written as a string, in insertion order
\* (an int key g and a str key str(g) both come out as "g")
JsonDumpsDict(d) == [i \in 1..Len(d) |-> [k |-> StrKey(d[i].k[2]), v |-> d[i].v]]

\* json.loads of an object: a dict of its pairs, a repeated key keeping its first
\* position and its last value
RECURSIVE JsonLoadsPairs(_, _)
JsonLoadsPairs(pairs, acc) ==
  IF pairs = <<>> THEN acc
  ELSE JsonLoadsPairs(Tail(pairs), DictSet(acc, Head(pairs).k, Head(pairs).v))
JsonLoadsDict(pairs) == JsonLoadsPairs(pairs, <<>>)

\* json.dumps(asdict(self.historical))
JsonDumpsHistorical(h) ==
  ObjectBlob([h EXCEPT !.gear_shift_counts = JsonDumpsDict(h.gear_shift_counts)])

\* json.loads(data): the dict of the object's members, or an exception
json_loads(data) ==
  IF data = GarbageBlob THEN Raised
  ELSE IF data = ArrayBlob THEN ArrayBlob
  ELSE [k \in DOMAIN data.object |->
          IF k = "gear_shift_counts" THEN JsonLoadsDict(data.object[k])
          ELSE data.object[k]]

\* the names of the dataclass fields
FieldNames == DOMAIN HistoricalStats

\* HistoricalStats(**stats_dict): a TypeError when stats_dict is no mapping or
\* has a key that is no field; a field without a keyword takes its default
HistoricalStatsFrom(stats_dict) ==
  IF stats_dict = ArrayBlob \/ ~(DOMAIN stats_dict \subseteq FieldNames)
  THEN Raised
  ELSE [f \in FieldNames |->
          IF f \in DOMAIN stats_dict THEN stats_dict[f] ELSE HistoricalStats[f]]

\* lines 234-242: any exception, and data that is None or empty, give the defaults
load_historical_stats(store) ==
  LET data == store.ManualDriveStats
  IN  IF data = NoBlob \/ data = EmptyBlob THEN HistoricalStats
      ELSE LET stats_dict == json_loads(data)
               made == IF stats_dict = Raised THEN Raised
                       ELSE HistoricalStatsFrom(stats_dict)
           IN  IF made = Raised THEN HistoricalStats ELSE made

\* the cumulative stats after n earlier sessions without events, the i-th of
\* them 30 s + i ticks long, as end_session leaves them
PriorSession(i) == SessionSummary(MIN_SESSION_FRAMES + i, DriveSession)
PriorHistorical(n) ==
  [HistoricalStats EXCEPT
     !.total_drives = n,
     !.total_drive_time = n * MIN_SESSION_FRAMES + (n * (n + 1)) \div 2,
     !.session_history = [i \in 1..n |-> PriorSession(i)],
     !.recent_stall_rates = [i \in 1..MAX_RECENT |-> 0],
     !.recent_shift_scores = [i \in 1..MAX_RECENT |-> 100]]

\* what the store can hold under ManualDriveStats when the tracker is built:
\* nothing, or what an earlier process saved
StoredStats ==
  {NoBlob} \cup {JsonDumpsHistorical(PriorHistorical(n)) :
                   n \in {MAX_SESSION_HISTORY - 1, MAX_SESSION_HISTORY}}

\* ---------------------------------------------------------------- __init__

Tracker(store) ==
  [ historical |-> load_historical_stats(store),
    frame |-> 0, session_start_frame |-> 0, session |-> DriveSession,
    prev_rpm |-> 0, prev_gear |-> 0, prev_speed |-> 0, prev_accel |-> 0,
    prev_throttle |-> 0,
    accel_history |-> <<>>,
    is_lugging |-> FALSE, lug_start_frame |-> 0,
    is_launching |-> FALSE, launch_start_frame |-> 0, launch_max_jerk |-> RatZero,
    launch_clutch_released |-> FALSE,
    clutch_pressed_recently |-> FALSE, clutch_release_frame |-> 0,
    last_shift_smoothness |-> RatZero, last_shift_grade |-> 0, last_shift_frame |-> 0,
    gear_before_clutch |-> 0,
    live_update_counter |-> 0 ]

\* ---------------------------------------------------------------- detectors

\* deque(maxlen=50).append(accel)
DequeAppend(history, accel) ==
  IF Len(history) >= ACCEL_HISTORY_MAXLEN
  THEN Append(Tail(history), accel)
  ELSE Append(history, accel)

\* list[-n:]
LastN(list, n) ==
  IF Len(list) > n THEN SubSeq(list, Len(list) - n + 1, Len(list)) ELSE list

\* mutant: ten buffered samples are still too few
calculate_jerk_late(s) ==
  IF Len(s.accel_history) <= MIN_JERK_SAMPLES THEN RatZero
  ELSE LET accels == LastN(s.accel_history, ACCEL_HISTORY_MAXLEN)
           n == Len(accels)
           sum == SeqSum(accels)
       IN  Rat(n * SeqSumSq(accels) - sum * sum, n * n)

\* the variance of the buffered samples (the code returns its square root):
\*   sum((a - mean)^2) / n  =  (n * sum(a^2) - sum(a)^2) / n^2
calculate_jerk(s) ==
  IF Len(s.accel_history) < MIN_JERK_SAMPLES THEN RatZero
  ELSE LET accels == LastN(s.accel_history, ACCEL_HISTORY_MAXLEN)
           n == Len(accels)
           sum == SeqSum(accels)
       IN  Rat(n * SeqSumSq(accels) - sum * sum, n * n)

\* update, lines 391-400: clutch edges
track_clutch(s, clutch) ==
  IF clutch /\ ~s.clutch_pressed_recently
  THEN [s EXCEPT !.clutch_pressed_recently = TRUE, !.gear_before_clutch = s.prev_gear]
  ELSE IF ~clutch /\ s.clutch_pressed_recently
  THEN [s EXCEPT !.clutch_release_frame = s.frame, !.clutch_pressed_recently = FALSE]
  ELSE s

\* mutant: the stall is told from the level of the rpm, not from its falling edge
detect_stall_level(s, rpm, clutch, neutral) ==
  IF rpm < STALL_RPM_THRESHOLD /\ ~neutral
  THEN LET s1 == [s EXCEPT !.session.stall_count = @ + 1]
       IN  IF s1.is_launching
           THEN [s1 EXCEPT !.session.launch_stalled = @ + 1,
                           !.session.launch_count = @ + 1,
                           !.is_launching = FALSE]
           ELSE s1
  ELSE s

\* mutant: a stalled launch is not added to the launch total
detect_stall_no_total(s, rpm, clutch, neutral) ==
  IF rpm < STALL_RPM_THRESHOLD /\ s.prev_rpm >= STALL_RPM_THRESHOLD /\ ~neutral
  THEN LET s1 == [s EXCEPT !.session.stall_count = @ + 1]
       IN  IF s1.is_launching
           THEN [s1 EXCEPT !.session.launch_stalled = @ + 1,
                           !.is_launching = FALSE]
           ELSE s1
  ELSE s

detect_stall(s, rpm, clutch, neutral) ==
  IF rpm < STALL_RPM_THRESHOLD /\ s.prev_rpm >= STALL_RPM_THRESHOLD /\ ~neutral
  THEN LET s1 == [s EXCEPT !.session.stall_count = @ + 1]
       IN  IF s1.is_launching
           THEN [s1 EXCEPT !.session.launch_stalled = @ + 1,
                           !.session.launch_count = @ + 1,
                           !.is_launching = FALSE]
           ELSE s1
  ELSE s

is_lugging_now(rpm, throttle, speed, in_gear) ==
  /\ in_gear
  /\ rpm < LUG_RPM_THRESHOLD
  /\ throttle > LUG_LOAD_THRESHOLD
  /\ speed > MIN_SPEED_FOR_LUG

\* mutant: the opening frame of the interval is not recorded
detect_lug_no_start(s, rpm, throttle, speed, in_gear) ==
  IF is_lugging_now(rpm, throttle, speed, in_gear) /\ ~s.is_lugging
  THEN [s EXCEPT !.is_lugging = TRUE,
                 !.session.lug_count = @ + 1]
  ELSE IF ~is_lugging_now(rpm, throttle, speed, in_gear) /\ s.is_lugging
  THEN [s EXCEPT !.session.lug_duration_total = @ + (s.frame - s.lug_start_frame),
                 !.is_lugging = FALSE]
  ELSE s

\* mutant: every tick of lugging is counted
detect_lug_level(s, rpm, throttle, speed, in_gear) ==
  IF is_lugging_now(rpm, throttle, speed, in_gear)
  THEN [s EXCEPT !.is_lugging = TRUE,
                 !.lug_start_frame = IF s.is_lugging THEN @ ELSE s.frame,
                 !.session.lug_count = @ + 1]
  ELSE IF s.is_lugging
  THEN [s EXCEPT !.session.lug_duration_total = @ + (s.frame - s.lug_start_frame),
                 !.is_lugging = FALSE]
  ELSE s

detect_lug(s, rpm, throttle, speed, in_gear) ==
  IF is_lugging_now(rpm, throttle, speed, in_gear) /\ ~s.is_lugging
  THEN [s EXCEPT !.is_lugging = TRUE,
                 !.lug_start_frame = s.frame,
                 !.session.lug_count = @ + 1]
  ELSE IF ~is_lugging_now(rpm, throttle, speed, in_gear) /\ s.is_lugging
  THEN [s EXCEPT !.session.lug_duration_total = @ + (s.frame - s.lug_start_frame),
                 !.is_lugging = FALSE]
  ELSE s

\* lines 482-490: grade the launch and close it
grade_launch(s) ==
  LET graded ==
        IF SmoothLess(s.launch_max_jerk, GOOD_LAUNCH_SMOOTHNESS)
        THEN [s EXCEPT !.session.launch_good = @ + 1]
        ELSE IF SmoothLess(s.launch_max_jerk, OK_LAUNCH_SMOOTHNESS)
        THEN [s EXCEPT !.session.launch_ok = @ + 1]
        ELSE [s EXCEPT !.session.launch_poor = @ + 1]
  IN  [graded EXCEPT !.session.launch_count = @ + 1, !.is_launching = FALSE]

\* mutant: the launch completes on speed alone
detect_launch_speed_only(s, rpm, speed, clutch, neutral) ==
  LET s1 == IF speed < LAUNCH_SPEED_THRESHOLD /\ clutch /\ ~s.is_launching
            THEN [s EXCEPT !.is_launching = TRUE,
                           !.launch_start_frame = s.frame,
                           !.launch_max_jerk = RatZero,
                           !.launch_clutch_released = FALSE]
            ELSE s
  IN  IF s1.is_launching
      THEN LET s2 == IF ~clutch THEN [s1 EXCEPT !.launch_clutch_released = TRUE] ELSE s1
               s3 == [s2 EXCEPT !.launch_max_jerk = RatMax(@, calculate_jerk(s2))]
           IN  IF speed >= LAUNCH_COMPLETE_SPEED
               THEN grade_launch(s3)
               ELSE s3
      ELSE s1

detect_launch(s, rpm, speed, clutch, neutral) ==
  LET s1 == IF speed < LAUNCH_SPEED_THRESHOLD /\ clutch /\ ~s.is_launching
            THEN [s EXCEPT !.is_launching = TRUE,
                           !.launch_start_frame = s.frame,
                           !.launch_max_jerk = RatZero,
                           !.launch_clutch_released = FALSE]
            ELSE s
  IN  IF s1.is_launching
      THEN LET s2 == IF ~clutch THEN [s1 EXCEPT !.launch_clutch_released = TRUE] ELSE s1
               s3 == [s2 EXCEPT !.launch_max_jerk = RatMax(@, calculate_jerk(s2))]
           IN  IF speed >= LAUNCH_COMPLETE_SPEED /\ s3.launch_clutch_released
               THEN grade_launch(s3)
               ELSE s3
      ELSE s1

\* lines 517-525: 1 = good, 2 = ok, 3 = poor
upshift_grade(smoothness) ==
  IF SmoothLess(smoothness, GOOD_SHIFT_SMOOTHNESS) THEN 1
  ELSE IF SmoothLess(smoothness, OK_SHIFT_SMOOTHNESS) THEN 2
  ELSE 3

\* abs(rpm - target_rpm) < tolerance, target_rpm a fraction over RpmDen
rpm_match_within(rpm, target_rpm, tolerance) ==
  Abs(rpm * RpmDen - target_rpm) < tolerance * RpmDen

\* mutant: a tight rev-match is graded good whatever the smoothness
downshift_grade_match_only(s, rpm, gear, smoothness) ==
  LET target_rpm == rpm_for_speed_and_gear(s.prev_speed, gear)
      good_match == rpm_match_within(rpm, target_rpm, GOOD_DOWNSHIFT_REV_MATCH_TOLERANCE)
      ok_match == rpm_match_within(rpm, target_rpm, OK_DOWNSHIFT_REV_MATCH_TOLERANCE)
  IN  IF good_match THEN 1
      ELSE IF ok_match \/ (good_match /\ SmoothLess(smoothness, OK_SHIFT_SMOOTHNESS)) THEN 2
      ELSE 3

\* lines 531-545
downshift_grade(s, rpm, gear, smoothness) ==
  LET target_rpm == rpm_for_speed_and_gear(s.prev_speed, gear)
      good_match == rpm_match_within(rpm, target_rpm, GOOD_DOWNSHIFT_REV_MATCH_TOLERANCE)
      ok_match == rpm_match_within(rpm, target_rpm, OK_DOWNSHIFT_REV_MATCH_TOLERANCE)
  IN  IF good_match /\ SmoothLess(smoothness, GOOD_SHIFT_SMOOTHNESS) THEN 1
      ELSE IF ok_match \/ (good_match /\ SmoothLess(smoothness, OK_SHIFT_SMOOTHNESS)) THEN 2
      ELSE 3

\* lines 515-526
count_upshift(s, grade) ==
  LET graded == IF grade = 1 THEN [s EXCEPT !.session.upshift_good = @ + 1]
                ELSE IF grade = 2 THEN [s EXCEPT !.session.upshift_ok = @ + 1]
                ELSE [s EXCEPT !.session.upshift_poor = @ + 1]
  IN  [graded EXCEPT !.session.upshift_count = @ + 1]

\* lines 537-546
count_downshift(s, grade) ==
  LET graded == IF grade = 1 THEN [s EXCEPT !.session.downshift_good = @ + 1]
                ELSE IF grade = 2 THEN [s EXCEPT !.session.downshift_ok = @ + 1]
                ELSE [s EXCEPT !.session.downshift_poor = @ + 1]
  IN  [graded EXCEPT !.session.downshift_count = @ + 1]

\* lines 511-513: the per-gear dict is read and written under the int key
count_gear_shift(s, gear) ==
  IF 1 <= gear /\ gear <= 6
  THEN [s EXCEPT !.historical.gear_shift_counts =
                   DictSet(@, IntKey(gear), DictGet(@, IntKey(gear), 0) + 1)]
  ELSE s

\* mutant: no limit on the ticks since the clutch release
detect_shift_any_time(s, rpm, gear, clutch, neutral) ==
  IF gear = 0 \/ neutral THEN s
  ELSE IF gear # s.gear_before_clutch /\ s.gear_before_clutch > 0 /\ ~clutch
  THEN LET is_upshift == gear > s.gear_before_clutch
           smoothness == calculate_jerk(s)
           s1 == count_gear_shift(s, gear)
           grade == IF is_upshift THEN upshift_grade(smoothness)
                    ELSE downshift_grade(s, rpm, gear, smoothness)
           s2 == IF is_upshift THEN count_upshift(s1, grade) ELSE count_downshift(s1, grade)
       IN  [s2 EXCEPT !.last_shift_smoothness = smoothness,
                      !.last_shift_grade = grade,
                      !.last_shift_frame = s.frame,
                      !.clutch_release_frame = 0,
                      !.gear_before_clutch = 0]
  ELSE s

\* mutant: the markers are not reset after the shift is counted
detect_shift_no_reset(s, rpm, gear, clutch, neutral) ==
  IF gear = 0 \/ neutral THEN s
  ELSE IF s.frame - s.clutch_release_frame > SHIFT_WINDOW_FRAMES THEN s
  ELSE IF gear # s.gear_before_clutch /\ s.gear_before_clutch > 0 /\ ~clutch
  THEN LET is_upshift == gear > s.gear_before_clutch
           smoothness == calculate_jerk(s)
           s1 == count_gear_shift(s, gear)
           grade == IF is_upshift THEN upshift_grade(smoothness)
                    ELSE downshift_grade(s, rpm, gear, smoothness)
           s2 == IF is_upshift THEN count_upshift(s1, grade) ELSE count_downshift(s1, grade)
       IN  [s2 EXCEPT !.last_shift_smoothness = smoothness,
                      !.last_shift_grade = grade,
                      !.last_shift_frame = s.frame]
  ELSE s

\* lines 492-556
detect_shift(s, rpm, gear, clutch, neutral) ==
  IF gear = 0 \/ neutral THEN s
  ELSE IF s.frame - s.clutch_release_frame > SHIFT_WINDOW_FRAMES THEN s
  ELSE IF gear # s.gear_before_clutch /\ s.gear_before_clutch > 0 /\ ~clutch
  THEN LET is_upshift == gear > s.gear_before_clutch
           smoothness == calculate_jerk(s)
           s1 == count_gear_shift(s, gear)
           grade == IF is_upshift THEN upshift_grade(smoothness)
                    ELSE downshift_grade(s, rpm, gear, smoothness)
           s2 == IF is_upshift THEN count_upshift(s1, grade) ELSE count_downshift(s1, grade)
       IN  [s2 EXCEPT !.last_shift_smoothness = smoothness,
                      !.last_shift_grade = grade,
                      !.last_shift_frame = s.frame,
                      !.clutch_release_frame = 0,
                      !.gear_before_clutch = 0]
  ELSE s

\* ------------------------------------------------------------------ advisor

\* mutant: no discount for the low gears
gear_error_unweighted(rpm, speed_ms, gear) ==
  10 * Abs(rpm - rpm_for_speed_and_gear(speed_ms, gear))

\* lines 571-576: abs(rpm - expected_rpm), times 0.9 for gears 1 and 2; with rpm
\* and expected_rpm fractions over RpmDen, the error as a fraction over 10 * RpmDen
gear_error(rpm, speed_ms, gear) ==
  (IF gear <= 2 THEN 9 ELSE 10) * Abs(rpm - rpm_for_speed_and_gear(speed_ms, gear))

\* lines 570-580: the loop from `gear` on; min_error < 0 stands for float('inf')
RECURSIVE predict_gear_loop(_, _, _, _, _)
predict_gear_loop(rpm, speed_ms, gear, best_gear, min_error) ==
  IF gear > 6 THEN [best_gear |-> best_gear, min_error |-> min_error]
  ELSE LET error == gear_error(rpm, speed_ms, gear)
       IN  IF min_error < 0 \/ error < min_error
           THEN predict_gear_loop(rpm, speed_ms, gear + 1, gear, error)
           ELSE predict_gear_loop(rpm, speed_ms, gear + 1, best_gear, min_error)

\* predict_gear(rpm, speed_ms), rpm a fraction over RpmDen
predict_gear(rpm, speed_ms) ==
  IF rpm < 500 * RpmDen \/ speed_ms < 5 THEN 0
  ELSE LET found == predict_gear_loop(rpm, speed_ms, 1, 0, -1)
       IN  IF found.min_error < 500 * 10 * RpmDen THEN found.best_gear ELSE 0

NoSuggestion == [action |-> "ok", reason |-> "", target_gear |-> 0]

\* mutant: a suggestion from any gear, top and first gear included
get_shift_suggestion_any_gear(rpm, gear, throttle) ==
  IF gear = 0 \/ rpm < 500 THEN NoSuggestion
  ELSE IF throttle < 30 /\ rpm > ECONOMY_UPSHIFT_RPM
  THEN [action |-> "upshift", reason |-> "economy", target_gear |-> gear + 1]
  ELSE IF throttle < 30 /\ rpm < ECONOMY_DOWNSHIFT_RPM
  THEN [action |-> "downshift", reason |-> "lug_prevention", target_gear |-> gear - 1]
  ELSE IF throttle > 70 /\ rpm > PERFORMANCE_UPSHIFT_RPM
  THEN [action |-> "upshift", reason |-> "redline", target_gear |-> gear + 1]
  ELSE IF throttle > 70 /\ rpm < PERFORMANCE_DOWNSHIFT_RPM
  THEN [action |-> "downshift", reason |-> "powerband", target_gear |-> gear - 1]
  ELSE NoSuggestion

\* the action, reason and target gear of the suggestion
get_shift_suggestion(rpm, gear, throttle) ==
  IF gear = 0 \/ rpm < 500 THEN NoSuggestion
  ELSE IF throttle < 30 /\ rpm > ECONOMY_UPSHIFT_RPM /\ gear < 6
  THEN [action |-> "upshift", reason |-> "economy", target_gear |-> gear + 1]
  ELSE IF throttle < 30 /\ rpm < ECONOMY_DOWNSHIFT_RPM /\ gear > 1
  THEN [action |-> "downshift", reason |-> "lug_prevention", target_gear |-> gear - 1]
  ELSE IF throttle > 70 /\ rpm > PERFORMANCE_UPSHIFT_RPM /\ gear < 6
  THEN [action |-> "upshift", reason |-> "redline", target_gear |-> gear + 1]
  ELSE IF throttle > 70 /\ rpm < PERFORMANCE_DOWNSHIFT_RPM /\ gear > 1
  THEN [action |-> "downshift", reason |-> "powerband", target_gear |-> gear - 1]
  ELSE NoSuggestion

\* mutant: the shift is still shown 50 ticks after it was counted
get_shift_info_inclusive(s) ==
  IF s.frame - s.last_shift_frame <= SHIFT_INFO_FRAMES
  THEN <<s.last_shift_smoothness, s.last_shift_grade>>
  ELSE <<RatZero, 0>>

\* (smoothness, grade) of the last shift, or (0.0, 0)
get_shift_info(s) ==
  IF s.frame - s.last_shift_frame < SHIFT_INFO_FRAMES
  THEN <<s.last_shift_smoothness, s.last_shift_grade>>
  ELSE <<RatZero, 0>>

get_live_stats(s) ==
  LET suggestion == get_shift_suggestion(s.prev_rpm, s.prev_gear, s.prev_throttle)
  IN  [ stalls |-> s.session.stall_count,
        lugs |-> s.session.lug_count,
        shifts |-> s.session.upshift_count + s.session.downshift_count,
        good_shifts |-> s.session.upshift_good + s.session.downshift_good,
        launches |-> s.session.launch_count,
        good_launches |-> s.session.launch_good,
        is_lugging |-> s.is_lugging,
        gear |-> s.prev_gear,
        shift_suggestion |-> suggestion.action,
        shift_reason |-> suggestion.reason ]

\* the dict _save_session_stats writes, without the wall-clock timestamp;
\* lug_duration_total is not part of it
session_dict(s) ==
  [ duration |-> s.frame - s.session_start_frame,
    stall_count |-> s.session.stall_count, lug_count |-> s.session.lug_count,
    upshift_count |-> s.session.upshift_count, upshift_good |-> s.session.upshift_good,
    upshift_ok |-> s.session.upshift_ok, upshift_poor |-> s.session.upshift_poor,
    downshift_count |-> s.session.downshift_count,
    downshift_good |-> s.session.downshift_good,
    downshift_ok |-> s.session.downshift_ok, downshift_poor |-> s.session.downshift_poor,
    launch_count |-> s.session.launch_count, launch_good |-> s.session.launch_good,
    launch_ok |-> s.session.launch_ok, launch_poor |-> s.session.launch_poor,
    launch_stalled |-> s.session.launch_stalled ]

\* ------------------------------------------------------------------ update

\* mutant: the launch detector runs before the stall detector
detect_all_launch_first(s, m) ==
  LET in_gear == ~m.neutral /\ ~m.clutch
      s1 == detect_launch(s, m.rpm, m.speed, m.clutch, m.neutral)
      s2 == detect_stall(s1, m.rpm, m.clutch, m.neutral)
      s3 == detect_lug(s2, m.rpm, m.throttle, m.speed, in_gear)
  IN  detect_shift(s3, m.rpm, m.gear, m.clutch, m.neutral)

\* lines 402-412: the four detectors, in the order update calls them
detect_all(s, m) ==
  LET in_gear == ~m.neutral /\ ~m.clutch
      s1 == detect_stall(s, m.rpm, m.clutch, m.neutral)
      s2 == detect_lug(s1, m.rpm, m.throttle, m.speed, in_gear)
      s3 == detect_launch(s2, m.rpm, m.speed, m.clutch, m.neutral)
  IN  detect_shift(s3, m.rpm, m.gear, m.clutch, m.neutral)

\* lines 422-424: the flush counter after this call
next_live_update_counter(c) ==
  IF c + 1 >= LIVE_UPDATE_PERIOD THEN 0 ELSE c + 1

\* mutant: the save waits for one call more than the counter ever reaches
flush_due_late(s) == s.live_update_counter + 1 > LIVE_UPDATE_PERIOD

\* whether this call reaches the periodic save of lines 425-426
flush_due(s) == s.live_update_counter + 1 >= LIVE_UPDATE_PERIOD

\* the tracker after update(rpm, gear, speed, accel, clutch, neutral, throttle)
update(s, m) ==
  LET s0 == [s EXCEPT !.frame = @ + 1,
                      !.accel_history = DequeAppend(@, m.accel)]
      s1 == track_clutch(s0, m.clutch)
      s2 == detect_all(s1, m)
  IN  [s2 EXCEPT !.prev_rpm = m.rpm,
                 !.prev_gear = m.gear,
                 !.prev_speed = m.speed,
                 !.prev_accel = m.accel,
                 !.prev_throttle = m.throttle,
                 !.live_update_counter = next_live_update_counter(@)]

\* the keys update writes, in order (lines 425-426)
update_puts(s) ==
  IF flush_due(s) THEN <<"ManualDriveLastSession", "ManualDriveLiveStats">> ELSE <<>>

\* ------------------------------------------------------------- end_session

\* mutant: nothing is evicted
AppendUnbounded(list, x, limit) == Append(list, x)

\* list.append(x) followed by pop(0) when longer than limit
AppendBounded(list, x, limit) ==
  IF Len(list) + 1 > limit THEN Tail(Append(list, x)) ELSE Append(list, x)

\* lines 332-338
shift_score(session) ==
  LET total_shifts == session.upshift_count + session.downshift_count
      good_shifts == session.upshift_good + session.downshift_good
      ok_shifts == session.upshift_ok + session.downshift_ok
  IN  IF total_shifts > 0
      THEN (good_shifts * 100 + ok_shifts * 50) \div total_shifts
      ELSE 100

\* mutant: a session of exactly 30 s is discarded
session_kept_strict(s) == s.frame - s.session_start_frame > MIN_SESSION_FRAMES

\* lines 280-284: the session is kept when it lasted 30 s or more
session_kept(s) == ~(s.frame - s.session_start_frame < MIN_SESSION_FRAMES)

\* lines 287-342: the cumulative stats with this session added
add_session(h, session, duration) ==
  [h EXCEPT
     !.total_drives = @ + 1,
     !.total_drive_time = @ + duration,
     !.total_stalls = @ + session.stall_count,
     !.total_lugs = @ + session.lug_count,
     !.total_lug_time = @ + session.lug_duration_total,
     !.total_upshifts = @ + session.upshift_count,
     !.upshifts_good = @ + session.upshift_good,
     !.upshifts_ok = @ + session.upshift_ok,
     !.upshifts_poor = @ + session.upshift_poor,
     !.total_downshifts = @ + session.downshift_count,
     !.downshifts_good = @ + session.downshift_good,
     !.downshifts_ok = @ + session.downshift_ok,
     !.downshifts_poor = @ + session.downshift_poor,
     !.total_launches = @ + session.launch_count,
     !.launches_good = @ + session.launch_good,
     !.launches_ok = @ + session.launch_ok,
     !.launches_poor = @ + session.launch_poor,
     !.launches_stalled = @ + session.launch_stalled,
     !.session_history =
        AppendBounded(@, SessionSummary(duration, session), MAX_SESSION_HISTORY),
     !.recent_stall_rates = AppendBounded(@, session.stall_count, MAX_RECENT),
     !.recent_shift_scores = AppendBounded(@, shift_score(session), MAX_RECENT)]

\* the tracker after end_session()
end_session(s) ==
  IF session_kept(s)
  THEN [s EXCEPT !.historical =
                   add_session(@, s.session, s.frame - s.session_start_frame)]
  ELSE s

\* the keys end_session writes, in order (lines 344-345)
end_session_puts(s) ==
  IF session_kept(s) THEN <<"ManualDriveLastSession", "ManualDriveStats">> ELSE <<>>

\* ------------------------------------------------------------------ samples

Sample(rpm, gear, speed, accel, clutch, neutral, throttle) ==
  [ rpm |-> rpm, gear |-> gear, speed |-> speed, accel |-> accel,
    clutch |-> clutch, neutral |-> neutral, throttle |-> throttle ]

\* cruising in third gear
CruiseSample == Sample(3000, 3, 100, 0, FALSE, FALSE, 20)

Samples ==
  { CruiseSample,
    \* stopped, clutch in, first gear
    Sample(800, 1, 0, 0, TRUE, FALSE, 0),
    \* stopped, clutch in, engine dying
    Sample(200, 1, 0, 0, TRUE, FALSE, 0),
    \* pulling away in first at low rpm under load
    Sample(1000, 1, 30, 15, FALSE, FALSE, 50),
    \* second gear at 6 m/s, rev-matched (1633 rpm expected)
    Sample(1700, 2, 60, 0, FALSE, FALSE, 50),
    \* second gear at 6 m/s, revs 367 rpm off, harsh
    Sample(2000, 2, 60, 20, FALSE, FALSE, 50),
    \* clutch in at speed
    Sample(3000, 2, 60, 0, TRUE, FALSE, 0),
    \* engine dying at speed, in gear, clutch out
    Sample(200, 2, 60, -5, FALSE, FALSE, 0),
    \* low rpm in neutral
    Sample(200, 0, 0, 0, FALSE, TRUE, 0) }

\* a gear the gearbox does not have
OutOfRangeSample == Sample(3000, 7, 100, 0, FALSE, FALSE, 20)

\* second gear at 6 m/s, rev-matched, gently accelerating
HoldSample == Sample(1700, 2, 60, 2, FALSE, FALSE, 50)

WindowSamples ==
  { HoldSample,
    CruiseSample,
    \* clutch in at speed
    Sample(3000, 2, 60, 0, TRUE, FALSE, 0),
    \* first gear at 6 m/s, rev-matched (2707 rpm expected), engine braking
    Sample(2700, 1, 60, -3, FALSE, FALSE, 0) }

\* "faulty": a drive of cruising on a store whose puts may fail late in the drive
Drives == {"short", "long", "window", "faulty"}

\* the frame of the first periodic flush after MaxFrame
FlushFrame == ((MaxFrame \div LIVE_UPDATE_PERIOD) + 1) * LIVE_UPDATE_PERIOD

\* the samples that may arrive on the tick after frame f of drive d
SamplesAt(d, f) ==
  IF d = "short" THEN Samples \cup {OutOfRangeSample}
  ELSE IF d = "long" THEN (IF f < QuietUntil THEN {CruiseSample} ELSE Samples)
  ELSE IF d = "window"
  THEN (IF f >= ShortFrames /\ f < HoldUntil THEN {HoldSample} ELSE WindowSamples)
  ELSE {CruiseSample}

\* the number of update calls of drive d
LastFrame(d) ==
  IF d = "short" THEN ShortFrames
  ELSE IF d = "long" THEN MaxFrame
  ELSE IF d = "window" THEN WindowFrames
  ELSE FlushFrame

\* the frames of drive d at which the caller may call end_session
EndSessionAt(d, f) ==
  IF d \in {"short", "long"} THEN TRUE
  ELSE IF d = "window" THEN f = WindowFrames
  ELSE f = MaxFrame

\* the session of an earlier process: an upshift into third gear and a
\* downshift into second, both good
ShiftedSession ==
  [DriveSession EXCEPT !.upshift_count = 1, !.upshift_good = 1,
                       !.downshift_count = 1, !.downshift_good = 1]

\* the cumulative stats that process had when it saved them: the per-gear
\* counts as _detect_shift left them, the session added by end_session
ShiftedHistorical ==
  add_session([HistoricalStats EXCEPT
                 !.gear_shift_counts =
                    DictSet(DictSet(@, IntKey(3), 1), IntKey(2), 1)],
              ShiftedSession, MIN_SESSION_FRAMES)

\* what the store holds under ManualDriveStats at the start of drive d
StoredAt(d) ==
  IF d \in {"short", "long"} THEN StoredStats
  ELSE IF d = "window" THEN {NoBlob, JsonDumpsHistorical(ShiftedHistorical)}
  ELSE {NoBlob}

\* the keys, among those a call at frame f of drive d puts, whose put raises
PutFailures(d, f, keys) ==
  IF d = "faulty" /\ f >= QuietUntil THEN SUBSET keys ELSE {{}}

\* put_nonblocking(key, value) inside try/except: a put that raises leaves the
\* store as it is
put_nonblocking(store, key, value, refused) ==
  IF key \in refused THEN store ELSE [store EXCEPT ![key] = value]

\* ------------------------------------------------------------ state machine

VARIABLES
  self,     \* the ManualStatsTracker instance
  params,   \* the Params store: key -> blob
  puts,     \* the keys the last call put, in order
  failed,   \* the keys whose put raised in the last call
  op,       \* the last call: "init", "update" or "end_session"
  sample,   \* the sample of the last update call
  loaded,   \* what _load_historical_stats returned at construction
  drive,    \* the kind of drive the caller feeds
  pre,      \* history: what the last call found (Before)
  obs,      \* history: what an observer of the samples and counters has seen
  query,    \* the call of a query method or module function, with its arguments
  result    \* what that call returned

vars == <<self, params, puts, failed, op, sample, loaded, drive, pre, obs, query, result>>

\* the last-shift snapshot
last_shift(s) == <<s.last_shift_smoothness, s.last_shift_grade, s.last_shift_frame>>

\* what a call finds when it starts: the session counters, the per-gear
\* counters, the last-shift snapshot, the open intervals, the rpm and road
\* speed of the tick before (ticked: there was one), the latest tick on which a
\* shift was counted, the recorded gear, whether the lug condition held on the
\* tick before, and the keys whose latest put raised
Before ==
  [ session |-> self.session,
    is_launching |-> self.is_launching,
    launch_clutch_released |-> self.launch_clutch_released,
    is_lugging |-> self.is_lugging,
    ticked |-> self.frame > 0,
    rpm |-> sample.rpm,
    speed |-> sample.speed,
    gear_shift_counts |-> self.historical.gear_shift_counts,
    last_shift |-> last_shift(self),
    shift_tick |-> obs.shift_tick,
    gear_before_clutch |-> self.gear_before_clutch,
    lug_on |-> obs.lug_on,
    owed |-> obs.owed ]

\* the lug condition of a sample: in gear (not neutral, clutch released), engine
\* below 1500 rpm, throttle above 10 %, road speed above 1.5 m/s
LugCondition(m) ==
  ~m.neutral /\ ~m.clutch /\ m.rpm < 1500 /\ m.throttle > 10 /\ m.speed > 15

\* the shifts counted so far in a session
ShiftsCounted(session) == session.upshift_count + session.downshift_count

\* the grade of the shift a call counted, told from the grade counter that went
\* up: 1 = good, 2 = ok, 3 = poor (0: none of them did)
GradeCounted(old, new) ==
  IF new.upshift_good + new.downshift_good > old.upshift_good + old.downshift_good THEN 1
  ELSE IF new.upshift_ok + new.downshift_ok > old.upshift_ok + old.downshift_ok THEN 2
  ELSE IF new.upshift_poor + new.downshift_poor > old.upshift_poor + old.downshift_poor THEN 3
  ELSE 0

\* the keys whose latest put raised, after a call that put `keys` and in which
\* the puts of `refused` raised
Owed(owed, keys, refused) == (owed \ keys) \cup refused

\* the observer after the tick that took sample m, found the tracker as `before`
\* and left it as s:
\*   lug_on          the lug condition held on this tick
\*   lug_open_tick   the tick on which it became true
\*   lug_closed_sum  the sum of (closing tick - opening tick) over the closed intervals
\*   launch_peak     the greatest smoothness of the ticks of the open launch
\*   launch_released the clutch was released on a tick of the open launch
\*   clutch          the clutch pedal on this tick
\*   press_tick      the latest tick with the clutch pressed and not pressed the tick before
\*   release_tick    the latest tick with the clutch released and pressed the tick before
\*   recent          the accelerations of the latest ticks, at most 50 of them
\*   shift_tick      the latest tick on which a shift was counted (0: none yet)
\*   shift_smoothness, shift_grade   the smoothness on that tick and its grade
\*   gears_in_range  every sample so far had a gear of 0..6
\*   owed            the keys whose latest put raised
Observe(o, before, s, m, keys, refused) ==
  LET tick == s.frame
      now == LugCondition(m)
      smoothness == calculate_jerk(s)
      was_launching == before.is_launching
      opened == s.is_launching /\ (~was_launching \/ s.launch_start_frame = tick)
      counted == ShiftsCounted(s.session) > ShiftsCounted(before.session)
      all == Append(o.recent, m.accel)
  IN  [ lug_on |-> now,
        lug_open_tick |-> IF now /\ ~o.lug_on THEN tick ELSE o.lug_open_tick,
        lug_closed_sum |-> IF ~now /\ o.lug_on
                           THEN o.lug_closed_sum + (tick - o.lug_open_tick)
                           ELSE o.lug_closed_sum,
        launch_peak |-> IF opened THEN smoothness
                        ELSE IF was_launching THEN RatMax(o.launch_peak, smoothness)
                        ELSE o.launch_peak,
        launch_released |-> IF opened THEN ~m.clutch
                            ELSE IF was_launching THEN o.launch_released \/ ~m.clutch
                            ELSE o.launch_released,
        clutch |-> m.clutch,
        press_tick |-> IF m.clutch /\ ~o.clutch THEN tick ELSE o.press_tick,
        release_tick |-> IF ~m.clutch /\ o.clutch THEN tick ELSE o.release_tick,
        recent |-> IF Len(all) > 50 THEN SubSeq(all, 2, 51) ELSE all,
        shift_tick |-> IF counted THEN tick ELSE o.shift_tick,
        shift_smoothness |-> IF counted THEN smoothness ELSE o.shift_smoothness,
        shift_grade |-> IF counted THEN GradeCounted(before.session, s.session)
                        ELSE o.shift_grade,
        gears_in_range |-> o.gears_in_range /\ m.gear \in 0..6,
        owed |-> Owed(o.owed, keys, refused) ]

\* the observer before the first tick
NothingObserved ==
  [ lug_on |-> FALSE, lug_open_tick |-> 0, lug_closed_sum |-> 0,
    launch_peak |-> RatZero, launch_released |-> FALSE,
    clutch |-> FALSE, press_tick |-> 0, release_tick |-> 0,
    recent |-> <<>>,
    shift_tick |-> 0, shift_smoothness |-> RatZero, shift_grade |-> 0,
    gears_in_range |-> TRUE,
    owed |-> {} ]

\* no query method has been called
NoQuery == [fn |-> "none"]

\* the tracker right after construction on a store holding `stored` under
\* ManualDriveStats, before any call
Constructed(stored) ==
  /\ params = [ ManualDriveStats |-> stored,
                ManualDriveLastSession |-> NoBlob,
                ManualDriveLiveStats |-> NoBlob ]
  /\ self = Tracker(params)
  /\ loaded = self.historical
  /\ puts = <<>>
  /\ failed = {}
  /\ op = "init"
  /\ sample = CruiseSample
  /\ obs = NothingObserved
  /\ pre = Before

Init ==
  /\ drive \in Drives
  /\ \E stored \in StoredAt(drive) : Constructed(stored)
  /\ query = NoQuery
  /\ result = NoQuery

Update ==
  /\ self.frame < LastFrame(drive)
  /\ puts' = update_puts(self)
  /\ \E m \in SamplesAt(drive, self.frame),
        refused \in PutFailures(drive, self.frame, Range(update_puts(self))) :
       /\ self' = update(self, m)
       /\ sample' = m
       /\ failed' = refused
       /\ obs' = Observe(obs, self, self', m, Range(update_puts(self)), refused)
       /\ params' =
            IF flush_due(self)
            THEN put_nonblocking(
                   put_nonblocking(params, "ManualDriveLastSession",
                                   session_dict(self'), refused),
                   "ManualDriveLiveStats", get_live_stats(self'), refused)
            ELSE params
  /\ op' = "update"
  /\ pre' = Before
  /\ UNCHANGED <<loaded, drive, query, result>>

EndSession ==
  /\ EndSessionAt(drive, self.frame)
  /\ self.historical.total_drives - loaded.total_drives < MaxSessions
  /\ self' = end_session(self)
  /\ puts' = end_session_puts(self)
  /\ \E refused \in PutFailures(drive, self.frame, Range(end_session_puts(self))) :
       /\ failed' = refused
       /\ obs' = [obs EXCEPT !.owed = Owed(@, Range(end_session_puts(self)), refused)]
       /\ params' =
            IF session_kept(self)
            THEN put_nonblocking(
                   put_nonblocking(params, "ManualDriveLastSession",
                                   session_dict(self'), refused),
                   "ManualDriveStats", JsonDumpsHistorical(self'.historical), refused)
            ELSE params
  /\ op' = "end_session"
  /\ pre' = Before
  /\ UNCHANGED <<sample, loaded, drive, query, result>>

Next == Update \/ EndSession

Spec == Init /\ [][Next]_vars

\* the drives in which every tick is free or the acceleration buffer fills
\* and turns over: "short" and "window"
InitWindow == Init /\ drive \in {"short", "window"}

SpecWindow == InitWindow /\ [][Next]_vars

\* ---------------------------------------------------------------- queries

\* Calls that read and do not tick: the loading of the cumulative stats on a
\* given store, and the methods and module functions that compute from their
\* arguments alone.  Each behaviour of SpecQuery makes one call.

\* the call has not returned
Pending == [pending |-> TRUE]

\* the call has returned v
Returned(v) == [returned |-> v]
HasReturned == "returned" \in DOMAIN result

\* members an earlier process may have stored, the last one under a key that
\* is no field of HistoricalStats
StoredMembers ==
  [ total_drives |-> 7,
    total_stalls |-> 3,
    total_lug_time |-> 250,
    gear_shift_counts |-> JsonDumpsDict(<<[k |-> IntKey(1), v |-> 4], [k |-> IntKey(2), v |-> 2]>>),
    session_history |-> <<PriorSession(1)>>,
    schema_version |-> 2 ]

\* what the store may hold under ManualDriveStats
LoadBlobs ==
  {NoBlob, EmptyBlob, GarbageBlob, ArrayBlob}
    \cup {ObjectBlob([k \in keys |-> StoredMembers[k]]) : keys \in SUBSET DOMAIN StoredMembers}

LoadQueries == {[fn |-> "load_historical_stats", data |-> data] : data \in LoadBlobs}

\* engine speeds in rpm and road speeds in 0.1 m/s a query is made with
RpmValues == {-1000, 0, 499, 500, 1000, 1500, 2000, 2300, 2500, 3000, 4000, 6000, 6600, 7000}
SpeedValues == {-10, 0, 4, 5, 30, 60, 100, 173, 300}
GearValues == {-1, 0, 1, 2, 3, 4, 5, 6, 7}

\* predict_gear(rpm, speed_ms) with a round engine speed, or with the engine
\* speed a gear gives at that road speed; rpm as a fraction over RpmDen
PredictQueries ==
  {[fn |-> "predict_gear", rpm |-> rpm, speed_ms |-> speed_ms] :
     rpm \in {r * RpmDen : r \in RpmValues}
              \cup {rpm_for_speed_and_gear(v, g) : v \in SpeedValues, g \in 1..6},
     speed_ms \in SpeedValues}

\* throttle positions in percent, on both sides of the 0.3 and 0.7 thresholds
ThrottleValues == {0, 29, 30, 50, 70, 71, 100}

SuggestionQueries ==
  {[fn |-> "get_shift_suggestion", rpm |-> rpm, gear |-> gear, throttle |-> throttle] :
     rpm \in RpmValues, gear \in GearValues, throttle \in ThrottleValues}

RpmQueries ==
  {[fn |-> "rpm_for_speed_and_gear", speed_ms |-> speed_ms, gear |-> gear] :
     speed_ms \in SpeedValues, gear \in GearValues}

\* speed_for_rpm_and_gear(rpm, gear) with a round engine speed, or with the
\* engine speed rpm_for_speed_and_gear returns for that gear
SpeedQueries ==
  {[fn |-> "speed_for_rpm_and_gear", rpm |-> rpm, gear |-> gear] :
     rpm \in {r * RpmDen : r \in RpmValues}
              \cup {rpm_for_speed_and_gear(v, g) : v \in SpeedValues, g \in GearValues},
     gear \in GearValues}

Queries ==
  LoadQueries \cup PredictQueries \cup SuggestionQueries \cup RpmQueries \cup SpeedQueries

\* the variables of the tracker and its observers: a query leaves them alone
trackerVars == <<self, params, puts, failed, op, sample, loaded, drive, pre, obs>>

InitQuery ==
  /\ drive = "short"
  /\ Constructed(NoBlob)
  /\ query \in Queries
  /\ result = Pending

\* self.historical = self._load_historical_stats() on a store holding query.data
LoadHistoricalStats ==
  /\ query.fn = "load_historical_stats"
  /\ result = Pending
  /\ result' = Returned(load_historical_stats([ManualDriveStats |-> query.data]))
  /\ UNCHANGED <<trackerVars, query>>

PredictGear ==
  /\ query.fn = "predict_gear"
  /\ result = Pending
  /\ result' = Returned(predict_gear(query.rpm, query.speed_ms))
  /\ UNCHANGED <<trackerVars, query>>

ShiftSuggestion ==
  /\ query.fn = "get_shift_suggestion"
  /\ result = Pending
  /\ result' = Returned(get_shift_suggestion(query.rpm, query.gear, query.throttle))
  /\ UNCHANGED <<trackerVars, query>>

RpmForSpeedAndGear ==
  /\ query.fn = "rpm_for_speed_and_gear"
  /\ result = Pending
  /\ result' = Returned(rpm_for_speed_and_gear(query.speed_ms, query.gear))
  /\ UNCHANGED <<trackerVars, query>>

SpeedForRpmAndGear ==
  /\ query.fn = "speed_for_rpm_and_gear"
  /\ result = Pending
  /\ result' = Returned(speed_for_rpm_and_gear(query.rpm, query.gear))
  /\ UNCHANGED <<trackerVars, query>>

NextQuery ==
  \/ LoadHistoricalStats
  \/ PredictGear
  \/ ShiftSuggestion
  \/ RpmForSpeedAndGear
  \/ SpeedForRpmAndGear

SpecQuery == InitQuery /\ [][NextQuery]_vars

\* ------------------------------------------------------------------- claims

\* the launches graded by the last call
LaunchGrades(session) == session.launch_good + session.launch_ok + session.launch_poor

\* C1: on an update call the session stall counter goes up by exactly 1 when the
\* rpm of the sample is below 300, the rpm of the tick before was at or above
\* 300 and the sample is not in neutral; on every other tick, the first one
\* included, and on end_session it keeps its value.
C1_StallEdge ==
  LET crossing == /\ sample.rpm < STALL_RPM_THRESHOLD
                  /\ pre.ticked /\ pre.rpm >= STALL_RPM_THRESHOLD
                  /\ ~sample.neutral
  IN  /\ op = "update" =>
           self.session.stall_count =
             pre.session.stall_count + (IF crossing THEN 1 ELSE 0)
      /\ op = "end_session" => self.session.stall_count = pre.session.stall_count

\* a second stall has just been counted: the rpm crossed the threshold twice
C1_Witness ==
  /\ op = "update"
  /\ self.session.stall_count = pre.session.stall_count + 1
  /\ self.session.stall_count = 2

\* C2: when a stall is counted on a tick that found a launch open, launch_stalled
\* and launch_count each go up by exactly 1 and launch_good, launch_ok and
\* launch_poor keep their values, whatever the speed and the clutch.
C2_StallClosesLaunch ==
  (/\ op = "update"
   /\ pre.is_launching
   /\ self.session.stall_count = pre.session.stall_count + 1)
  => /\ self.session.launch_stalled = pre.session.launch_stalled + 1
     /\ self.session.launch_count = pre.session.launch_count + 1
     /\ self.session.launch_good = pre.session.launch_good
     /\ self.session.launch_ok = pre.session.launch_ok
     /\ self.session.launch_poor = pre.session.launch_poor

\* a stall counted on an open launch whose clutch had been released, on a sample
\* at 5 m/s or more with the clutch out
C2_Witness ==
  /\ op = "update"
  /\ pre.is_launching /\ pre.launch_clutch_released
  /\ self.session.stall_count = pre.session.stall_count + 1
  /\ sample.speed >= LAUNCH_COMPLETE_SPEED /\ ~sample.clutch
  /\ self.session.launch_stalled = pre.session.launch_stalled + 1

\* C3: every update call that counts a stall writes the cumulative stats blob
\* (ManualDriveStats) within that call.
C3_StallFlushes ==
  (op = "update" /\ self.session.stall_count > pre.session.stall_count)
  => "ManualDriveStats" \in Range(puts)

\* C4: the periodic flush of update writes the cumulative stats blob: in a drive
\* that started with no blob stored and has had no stall and no kept
\* end_session, the blob is in the store once six flush periods have gone by.
C4_PeriodicCumulativeWrite ==
  (/\ loaded = HistoricalStats
   /\ self.frame >= 6 * LIVE_UPDATE_PERIOD
   /\ self.session.stall_count = 0
   /\ self.historical.total_drives = loaded.total_drives)
  => params.ManualDriveStats # NoBlob

\* C5: good + ok + poor <= total for upshifts, downshifts and launches, in the
\* session counters and in the cumulative counters, and launch good + ok + poor
\* + stalled <= launch total in both.
C5_GradesWithinTotals ==
  LET s == self.session
      h == self.historical
  IN  /\ s.upshift_good + s.upshift_ok + s.upshift_poor <= s.upshift_count
      /\ s.downshift_good + s.downshift_ok + s.downshift_poor <= s.downshift_count
      /\ s.launch_good + s.launch_ok + s.launch_poor + s.launch_stalled <= s.launch_count
      /\ h.upshifts_good + h.upshifts_ok + h.upshifts_poor <= h.total_upshifts
      /\ h.downshifts_good + h.downshifts_ok + h.downshifts_poor <= h.total_downshifts
      /\ h.launches_good + h.launches_ok + h.launches_poor + h.launches_stalled
           <= h.total_launches

\* a kept session with a stalled launch, a graded launch and a graded downshift
\* has been added to the cumulative counters
C5_Witness ==
  /\ op = "end_session"
  /\ self.historical.launches_stalled >= 1
  /\ self.historical.launches_good >= 1
  /\ self.historical.downshifts_poor >= 1
  /\ self.historical.total_launches >= 2

\* C6: every session counter equals the cumulative counter minus its value when
\* the tracker was built.
C6_SessionIsDelta ==
  LET s == self.session
      h == self.historical
  IN  /\ s.stall_count = h.total_stalls - loaded.total_stalls
      /\ s.lug_count = h.total_lugs - loaded.total_lugs
      /\ s.upshift_count = h.total_upshifts - loaded.total_upshifts
      /\ s.upshift_good = h.upshifts_good - loaded.upshifts_good
      /\ s.upshift_ok = h.upshifts_ok - loaded.upshifts_ok
      /\ s.upshift_poor = h.upshifts_poor - loaded.upshifts_poor
      /\ s.downshift_count = h.total_downshifts - loaded.total_downshifts
      /\ s.downshift_good = h.downshifts_good - loaded.downshifts_good
      /\ s.downshift_ok = h.downshifts_ok - loaded.downshifts_ok
      /\ s.downshift_poor = h.downshifts_poor - loaded.downshifts_poor
      /\ s.launch_count = h.total_launches - loaded.total_launches
      /\ s.launch_good = h.launches_good - loaded.launches_good
      /\ s.launch_ok = h.launches_ok - loaded.launches_ok
      /\ s.launch_poor = h.launches_poor - loaded.launches_poor
      /\ s.launch_stalled = h.launches_stalled - loaded.launches_stalled

\* the session history without its last entry
Front(list) == SubSeq(list, 1, Len(list) - 1)

C8_HistoryBounded ==
  /\ [](Len(self.historical.session_history) <= 30)
  /\ [][ (op' = "end_session" /\ self.frame >= 3000) =>
           LET old == self.historical.session_history
               new == self'.historical.session_history
               entry == SessionSummary(self.frame, self.session)
           IN  IF Len(old) = 30
               THEN new = Append(Tail(old), entry)
               ELSE new = Append(old, entry)
       ]_vars

\* a 31st entry has been appended: the history loaded with 30 entries holds its
\* entries 2..30 and the new one
C8_Witness ==
  /\ op = "end_session"
  /\ Len(loaded.session_history) = 30
  /\ self.historical.total_drives = loaded.total_drives + 1
  /\ Len(self.historical.session_history) = 30
  /\ self.historical.session_history[1] = loaded.session_history[2]
  /\ self.historical.session_history[30].duration = self.frame

\* C9: the lug duration the tracker has accumulated is the sum, over the lug
\* intervals closed so far, of closing tick - opening tick (in ticks of 10 ms);
\* an open interval adds nothing, and a kept end_session adds exactly that sum
\* to the cumulative lug time.
C9_LugDuration ==
  /\ [](self.session.lug_duration_total = obs.lug_closed_sum)
  /\ [][ op' = "end_session" =>
           self'.historical.total_lug_time =
             self.historical.total_lug_time
               + (IF self.frame >= 3000 THEN obs.lug_closed_sum ELSE 0)
       ]_vars

\* a kept end_session with one interval closed and another one open
C9_Witness ==
  /\ op = "end_session"
  /\ obs.lug_on
  /\ obs.lug_closed_sum > 0
  /\ self.historical.total_drives = loaded.total_drives + 1
  /\ self.historical.total_lug_time = loaded.total_lug_time + obs.lug_closed_sum

\* C10: an update call grades at most one launch, and only when it found a
\* launch open, the sample's speed is 5.0 m/s or more and the clutch was
\* released on a tick of that launch (this one included); it then adds 1 to
\* launch_count and to exactly one of launch_good (peak smoothness of the ticks
\* of the launch < 1.5), launch_ok (< 2.5) and launch_poor, and closes the launch.
C10_LaunchGrading ==
  op = "update" =>
    LET s == self.session
        p == pre.session
        graded == LaunchGrades(s) - LaunchGrades(p)
    IN  /\ s.launch_good >= p.launch_good
        /\ s.launch_ok >= p.launch_ok
        /\ s.launch_poor >= p.launch_poor
        /\ graded \in {0, 1}
        /\ graded = 1 =>
             /\ pre.is_launching
             /\ sample.speed >= 50
             /\ obs.launch_released
             /\ s.launch_count = p.launch_count + 1
             /\ ~self.is_launching
             /\ s.launch_good = p.launch_good + 1 <=> SmoothLess(obs.launch_peak, 6)
             /\ s.launch_ok = p.launch_ok + 1 <=>
                  (~SmoothLess(obs.launch_peak, 6) /\ SmoothLess(obs.launch_peak, 10))
             /\ s.launch_poor = p.launch_poor + 1 <=> ~SmoothLess(obs.launch_peak, 10)

\* a launch has just been graded ok: its peak smoothness lies in [1.5, 2.5)
C10_Witness ==
  /\ op = "update"
  /\ self.session.launch_ok = pre.session.launch_ok + 1
  /\ ~SmoothLess(obs.launch_peak, 6)

C12_ShiftInfoWindow ==
  get_shift_info(self) =
    IF obs.shift_tick > 0 /\ self.frame - obs.shift_tick < 50
    THEN <<obs.shift_smoothness, obs.shift_grade>>
    ELSE <<RatZero, 0>>

\* 50 update calls after a shift was counted and graded, the neutral value is
\* returned
C12_Witness ==
  /\ obs.shift_tick > 0
  /\ obs.shift_grade \in 1..3
  /\ self.frame - obs.shift_tick = 50
  /\ get_shift_info(self) = <<RatZero, 0>>

\* C13: loading the cumulative stats always returns: the defaults when the
\* blob is missing, empty or unparsable; for a stored object, every field of
\* HistoricalStats that is a key of the object takes its stored value and every
\* other field its default, whatever other keys the object has.
C13_LoadMerges ==
  (query.fn = "load_historical_stats" /\ HasReturned) =>
    IF "object" \in DOMAIN query.data
    THEN LET stored == query.data.object
         IN  \A f \in FieldNames :
               result.returned[f] =
                 IF f \notin DOMAIN stored THEN HistoricalStats[f]
                 ELSE IF f = "gear_shift_counts" THEN JsonLoadsDict(stored[f])
                 ELSE stored[f]
    ELSE result.returned = HistoricalStats

\* C14: a put that raises during a periodic flush or during end_session is not
\* made again within that call (no key is put twice by one call), and the next
\* periodic flush puts every key whose latest put raised.
C14_FailedPutRetried ==
  /\ Cardinality(Range(puts)) = Len(puts)
  /\ (op = "update" /\ puts # <<>>) => pre.owed \subseteq Range(puts)

\* the shift counters of a session
ShiftCounters(session) ==
  << session.upshift_count, session.upshift_good, session.upshift_ok,
     session.upshift_poor, session.downshift_count, session.downshift_good,
     session.downshift_ok, session.downshift_poor >>

\* C15: an update call whose sample has a gear outside 0..6 changes no upshift
\* or downshift counter, no per-gear counter and nothing of the last-shift
\* snapshot, whatever the clutch did before.
C15_OutOfRangeGearIgnored ==
  (op = "update" /\ sample.gear \notin 0..6) =>
    /\ ShiftCounters(self.session) = ShiftCounters(pre.session)
    /\ self.historical.gear_shift_counts = pre.gear_shift_counts
    /\ last_shift(self) = pre.last_shift

\* the sum of the first i samples
RECURSIVE SumTo(_, _)
SumTo(samples, i) == IF i = 0 THEN 0 ELSE samples[i] + SumTo(samples, i - 1)

\* the sum of (n * a - sum)^2 over the first i samples a: for i = n and sum the
\* sum of the n samples, n^3 times their population variance
RECURSIVE SumSqDev(_, _, _, _)
SumSqDev(samples, i, n, sum) ==
  IF i = 0 THEN 0
  ELSE (n * samples[i] - sum) * (n * samples[i] - sum)
         + SumSqDev(samples, i - 1, n, sum)

C17_PredictGear ==
  (query.fn = "predict_gear" /\ HasReturned) =>
    LET rpm == query.rpm
        best == result.returned
        speed == query.speed_ms
        \* 10 * RpmDen times the error of gear g
        Err(g) == (IF g \in {1, 2} THEN 9 ELSE 10)
                    * Abs(rpm - speed * BRZ_GEAR_RATIOS[g] * RpmNumFactor)
    IN  /\ IF rpm < 500 * RpmDen \/ speed < 5 THEN best = 0
           ELSE IF \E g \in 1..6 : Err(g) < 500 * 10 * RpmDen
           THEN best \in 1..6 /\ \A g \in 1..6 : Err(best) <= Err(g)
           ELSE best = 0
        /\ (/\ rpm = speed * BRZ_GEAR_RATIOS[3] * RpmNumFactor
            /\ rpm >= 500 * RpmDen
            /\ speed >= 5) => best = 3

\* predict_gear has returned 3 for the rpm third gear gives at 10 m/s
C17_Witness ==
  /\ query.fn = "predict_gear"
  /\ query.speed_ms = 100
  /\ query.rpm = rpm_for_speed_and_gear(100, 3)
  /\ result = Returned(3)

\* C18: get_shift_suggestion returns the no-action result when the gear is 0,
\* rpm < 500 or the throttle is between 0.3 and 0.7 inclusive; for a gear of
\* 1..6 it never suggests an upshift from gear 6 nor a downshift from gear 1,
\* an upshift targets gear + 1, a downshift gear - 1, and the target is in 1..6.
C18_ShiftSuggestion ==
  (query.fn = "get_shift_suggestion" /\ HasReturned) =>
    LET suggestion == result.returned
        gear == query.gear
    IN  /\ (gear = 0 \/ query.rpm < 500 \/ (query.throttle >= 30 /\ query.throttle <= 70))
              => suggestion = NoSuggestion
        /\ gear \in 1..6 =>
              /\ gear = 6 => suggestion.action # "upshift"
              /\ gear = 1 => suggestion.action # "downshift"
              /\ suggestion.action = "upshift"
                    => suggestion.target_gear = gear + 1 /\ suggestion.target_gear \in 1..6
              /\ suggestion.action = "downshift"
                    => suggestion.target_gear = gear - 1 /\ suggestion.target_gear \in 1..6

\* at light throttle and 3000 rpm, an upshift to sixth has been suggested in fifth
C18_Witness ==
  /\ query.fn = "get_shift_suggestion"
  /\ query.gear = 5 /\ query.rpm = 3000 /\ query.throttle = 29
  /\ result = Returned([action |-> "upshift", reason |-> "economy", target_gear |-> 6])

\* C19: for a gear g of 1..6 and a speed > 0, speed_for_rpm_and_gear applied to
\* rpm_for_speed_and_gear(speed, g) and g gives the speed back; each of the two
\* functions returns 0 for a gear outside 1..6 and for a speed or rpm <= 0.
C19_RoundTrip ==
  /\ (query.fn = "speed_for_rpm_and_gear" /\ HasReturned) =>
        LET speed == result.returned
        IN  /\ \A speed_ms \in SpeedValues :
                 (/\ query.gear \in 1..6
                  /\ speed_ms > 0
                  /\ query.rpm = rpm_for_speed_and_gear(speed_ms, query.gear))
                   => speed.num = speed_ms * speed.den
            /\ (query.gear \notin 1..6 \/ query.rpm <= 0) => speed.num = 0
  /\ (query.fn = "rpm_for_speed_and_gear" /\ HasReturned) =>
        /\ (query.gear \notin 1..6 \/ query.speed_ms <= 0) => result.returned = 0
        /\ (query.gear \in 1..6 /\ query.speed_ms > 0) => result.returned > 0

\* the engine speed of fourth gear at 17.3 m/s has been turned back into 17.3 m/s
C19_Witness ==
  /\ query.fn = "speed_for_rpm_and_gear"
  /\ query.gear = 4
  /\ query.rpm = rpm_for_speed_and_gear(173, 4)
  /\ HasReturned
  /\ result.returned.num = 173 * result.returned.den

\* C20: on every tick f on which upshift_count or downshift_count goes up, the
\* clutch was pressed (not pressed the tick before) on an earlier tick, and its
\* latest release (pressed the tick before, released on this one) was on a
\* tick r after that press with f - r <= 100: no gear change later than 100
\* ticks after the last release, or without a press and a release, is counted.
C20_ShiftWithinWindow ==
  (op = "update" /\ ShiftsCounted(self.session) > ShiftsCounted(pre.session)) =>
    /\ obs.press_tick \in 1..(self.frame - 1)
    /\ obs.release_tick \in (obs.press_tick + 1)..self.frame
    /\ self.frame - obs.release_tick <= 100

\* a shift has been counted exactly 100 ticks after the clutch release
C20_Witness ==
  /\ op = "update"
  /\ ShiftsCounted(self.session) > ShiftsCounted(pre.session)
  /\ obs.release_tick > 0
  /\ self.frame - obs.release_tick = 100

\* C21: a shift is not counted twice: a tick that counts a shift comes after
\* a clutch press edge that is later than the shift counted before it (so at
\* most one shift is counted from one press edge to the next, and none before
\* the first); and from the tick a shift is counted on, gear_before_clutch is 0
\* until the clutch is pressed again and clutch_release_frame is 0 until it is
\* released again.
C21_NoDoubleCount ==
  /\ (op = "update" /\ ShiftsCounted(self.session) > ShiftsCounted(pre.session)) =>
        /\ obs.press_tick > 0
        /\ pre.shift_tick < obs.press_tick
  /\ obs.press_tick = 0 => ShiftsCounted(self.session) = 0
  /\ (obs.shift_tick > 0 /\ obs.press_tick < obs.shift_tick) => self.gear_before_clutch = 0
  /\ (obs.shift_tick > 0 /\ obs.release_tick <= obs.shift_tick) => self.clutch_release_frame = 0

\* a second shift has been counted, after a second press of the clutch, and
\* the markers are back to 0
C21_Witness ==
  /\ op = "update"
  /\ ShiftsCounted(self.session) > ShiftsCounted(pre.session)
  /\ pre.shift_tick > 0
  /\ self.gear_before_clutch = 0
  /\ self.clutch_release_frame = 0

\* C22: on every tick that counts a shift the gear of the sample is not 0,
\* neutral is false, the clutch is released, the recorded gear_before_clutch is
\* > 0 and differs from the gear of the sample; exactly one of upshift_count
\* and downshift_count goes up, by 1, upshift_count if and only if the gear of
\* the sample is greater than the recorded gear; and the per-gear shift count
\* of the new gear goes up by 1.
C22_ShiftCounted ==
  (op = "update" /\ ShiftsCounted(self.session) > ShiftsCounted(pre.session)) =>
    LET recorded == pre.gear_before_clutch
        up == self.session.upshift_count - pre.session.upshift_count
        down == self.session.downshift_count - pre.session.downshift_count
    IN  /\ sample.gear # 0 /\ ~sample.neutral /\ ~sample.clutch
        /\ recorded > 0 /\ recorded # sample.gear
        /\ up \in {0, 1} /\ down \in {0, 1} /\ up + down = 1
        /\ up = 1 <=> sample.gear > recorded
        /\ DictGet(self.historical.gear_shift_counts, IntKey(sample.gear), 0)
             = DictGet(pre.gear_shift_counts, IntKey(sample.gear), 0) + 1

\* C23: after every update call is_lugging is the lug condition of its sample
\* (not neutral, clutch released, rpm < 1500, throttle > 0.10, speed > 1.5 m/s),
\* and lug_count has gone up by 1 if the condition holds and did not hold on the
\* tick before (or there was none), and has not changed if not; end_session
\* changes neither.
C23_LugEdge ==
  /\ op = "update" =>
        LET now == /\ ~sample.neutral /\ ~sample.clutch
                   /\ sample.rpm < 1500 /\ sample.throttle > 10 /\ sample.speed > 15
        IN  /\ self.is_lugging = now
            /\ self.session.lug_count =
                 pre.session.lug_count + (IF now /\ ~pre.lug_on THEN 1 ELSE 0)
  /\ op = "end_session" =>
        /\ self.is_lugging = pre.is_lugging
        /\ self.session.lug_count = pre.session.lug_count

\* lugging began on a tick after one without it, for the second time
C23_Witness ==
  /\ op = "update"
  /\ pre.ticked
  /\ LugCondition(sample) /\ ~pre.lug_on
  /\ self.is_lugging
  /\ pre.session.lug_count = 1
  /\ self.session.lug_count = 2

\* C24: the periodic flush follows a counter that is reset on the flush: an
\* update call puts the session blob and the live-stats blob (and the store
\* holds them afterwards, unless the put raised) when it is the 500th, 1000th,
\* ... update call, and puts nothing when it is not; after every update call
\* the counter is in 0..499.
C24_PeriodicFlush ==
  op = "update" =>
    /\ self.live_update_counter \in 0..499
    /\ self.live_update_counter = self.frame % 500
    /\ IF self.frame % 500 = 0
       THEN /\ puts = <<"ManualDriveLastSession", "ManualDriveLiveStats">>
            /\ "ManualDriveLastSession" \notin failed =>
                  params.ManualDriveLastSession = session_dict(self)
            /\ "ManualDriveLiveStats" \notin failed =>
                  params.ManualDriveLiveStats = get_live_stats(self)
       ELSE puts = <<>>

\* the 1000th update call has flushed, 500 calls after the flush before it
C24_Witness ==
  /\ op = "update"
  /\ self.frame = 1000
  /\ self.live_update_counter = 0
  /\ puts = <<"ManualDriveLastSession", "ManualDriveLiveStats">>
  /\ params.ManualDriveLiveStats = get_live_stats(self)

\* C25: the events of a session are added to the cumulative counters at most
\* once: in a tracker built on zero defaults, whatever update and end_session
\* calls were made, total_drives is at most 1 and every cumulative total is at
\* most the session counter it is fed from (a second end_session adds nothing).
C25_SessionAddedOnce ==
  loaded = HistoricalStats =>
    LET h == self.historical
        session == self.session
    IN  /\ h.total_drives <= 1
        /\ h.total_stalls <= session.stall_count
        /\ h.total_lugs <= session.lug_count
        /\ h.total_upshifts <= session.upshift_count
        /\ h.upshifts_good <= session.upshift_good
        /\ h.upshifts_ok <= session.upshift_ok
        /\ h.upshifts_poor <= session.upshift_poor
        /\ h.total_downshifts <= session.downshift_count
        /\ h.downshifts_good <= session.downshift_good
        /\ h.downshifts_ok <= session.downshift_ok
        /\ h.downshifts_poor <= session.downshift_poor
        /\ h.total_launches <= session.launch_count
        /\ h.launches_good <= session.launch_good
        /\ h.launches_ok <= session.launch_ok
        /\ h.launches_poor <= session.launch_poor
        /\ h.launches_stalled <= session.launch_stalled

\* the sum over the gears 1..6 of the cumulative per-gear shift counts
PerGearShifts(h) ==
  LET count(g) == DictGet(h.gear_shift_counts, IntKey(g), 0)
  IN  count(1) + count(2) + count(3) + count(4) + count(5) + count(6)

\* C26: in a tracker built on zero defaults and fed gears of 0..6 only, right
\* after every end_session call the cumulative per-gear shift counts of the
\* gears 1..6 add up to total_upshifts + total_downshifts.
C26_PerGearMatchesTotals ==
  (op = "end_session" /\ loaded = HistoricalStats /\ obs.gears_in_range) =>
    PerGearShifts(self.historical)
      = self.historical.total_upshifts + self.historical.total_downshifts

\* C27: saving the cumulative stats and loading them in a new tracker is a
\* round trip: what the tracker loads is what the earlier process saved; and a
\* shift into a gear g of 1..6 counted after the load raises the count kept for
\* g by 1 under the key it was loaded with, no key being added, so that after
\* one more save and load the count of g is one more than it was.
C27_SaveLoadRoundTrip ==
  /\ op = "init" =>
        \A saved \in {PriorHistorical(MAX_SESSION_HISTORY - 1),
                      PriorHistorical(MAX_SESSION_HISTORY), ShiftedHistorical} :
          params.ManualDriveStats = JsonDumpsHistorical(saved) => loaded = saved
  /\ (/\ op = "update"
      /\ ShiftsCounted(self.session) > ShiftsCounted(pre.session)
      /\ sample.gear \in 1..6) =>
        LET old == pre.gear_shift_counts
            new == self.historical.gear_shift_counts
            key == IF DictHas(old, StrKey(sample.gear)) THEN StrKey(sample.gear)
                   ELSE IntKey(sample.gear)
            Reloaded(d) == DictGet(JsonLoadsDict(JsonDumpsDict(d)), StrKey(sample.gear), 0)
        IN  /\ Len(new) = Len(old)
            /\ DictGet(new, key, 0) = DictGet(old, key, 0) + 1
            /\ Reloaded(new) = Reloaded(old) + 1

====
